---- MODULE Spec2Model ----
(***************************************************************************)
(* The medication reminder engine of medication_helper (src/app.py):       *)
(*   - medication_bp.index      (the dashboard classification, "classify") *)
(*   - check_reminders          (/api/check_reminders, "checkDueNow")      *)
(*   - update_medication_reminders (the edit of the reminder settings)     *)
(*   - convert_blood_sugar at application start (module body, init_db)     *)
(* and the standalone reminder service (src/reminder_service.py):          *)
(*   - run_scheduler, check_reminders, get_due_reminders                   *)
(* Time is wall-clock whole seconds since 00:00:00 of day 0 in the one     *)
(* fixed zone of the program (local_timezone); datetimes of the same zone  *)
(* are compared and subtracted by wall clock, which is integer arithmetic  *)
(* here.                                                                   *)
(* Strings are sequences of one-character strings, so that split, strip,   *)
(* int and strftime are modelled by what they do.                          *)
(* The store returns a last_reminded as it was written: the column is      *)
(* declared DateTime(timezone=True).                                       *)
(***************************************************************************)
EXTENDS Integers, Sequences, FiniteSets, TLC

\* ------------------------------------------------------------ constants

\* timedelta(days=1), in seconds
Day == 86400
\* timedelta(hours=1), the "due" window
DueWindow == 3600
\* timedelta(hours=4), the "upcoming" window
UpcomingWindow == 14400
\* the guard of check_reminders: total_seconds() > 300
GuardSeconds == 300
\* Python's None in the nullable column last_reminded
NoTime == -1

\* ------------------------------------------------------------ bounds

\* number of stored medications
NumMeds == 2
\* number of clock advances in one behaviour
MaxTicks == 2
\* number of reminder-settings edits in one behaviour
MaxEdits == 1
\* number of /api/check_reminders requests the concurrent pollers begin
MaxCalls == 3

Ids == 1..NumMeds

\* ------------------------------------------------------------ strings

Digits == <<"0", "1", "2", "3", "4", "5", "6", "7", "8", "9">>

IsDigit(c) == \E i \in 1..10 : Digits[i] = c

DigitVal(c) == (CHOOSE i \in 1..10 : Digits[i] = c) - 1

\* str.split(sep): the pieces between the separators, empty pieces kept
RECURSIVE SplitFrom(_, _, _, _)
SplitFrom(s, sep, i, cur) ==
    IF i > Len(s) THEN <<cur>>
    ELSE IF s[i] = sep THEN <<cur>> \o SplitFrom(s, sep, i + 1, <<>>)
    ELSE SplitFrom(s, sep, i + 1, Append(cur, s[i]))

Split(s, sep) == SplitFrom(s, sep, 1, <<>>)

\* str.strip(): leading and trailing whitespace removed
RECURSIVE LStrip(_)
LStrip(s) == IF s # <<>> /\ Head(s) = " " THEN LStrip(Tail(s)) ELSE s

RECURSIVE RStrip(_)
RStrip(s) ==
    IF s # <<>> /\ s[Len(s)] = " " THEN RStrip(SubSeq(s, 1, Len(s) - 1)) ELSE s

Strip(s) == RStrip(LStrip(s))

\* int(s) succeeds: optional surrounding whitespace, then decimal digits only
IntOk(s) ==
    LET t == Strip(s)
    IN  t # <<>> /\ \A i \in 1..Len(t) : IsDigit(t[i])

RECURSIVE DigitsVal(_)
DigitsVal(t) ==
    IF t = <<>> THEN 0
    ELSE 10 * DigitsVal(SubSeq(t, 1, Len(t) - 1)) + DigitVal(t[Len(t)])

\* int(s), where IntOk(s)
IntVal(s) == DigitsVal(Strip(s))

\* ------------------------------------------------------------ datetimes

HourOf(t) == (t % Day) \div 3600

MinuteOf(t) == (t % 3600) \div 60

\* now.replace(hour=h, minute=m, second=0, microsecond=0)
Replace(t, h, m) == (t - (t % Day)) + h * 3600 + m * 60

\* now.replace(...) raises ValueError outside these ranges
ReplaceOk(h, m) == h \in 0..23 /\ m \in 0..59

TwoDigits(n) == <<Digits[(n \div 10) + 1], Digits[(n % 10) + 1]>>

\* current_time.strftime('%H:%M')
Strftime(t) == TwoDigits(HourOf(t)) \o <<":">> \o TwoDigits(MinuteOf(t))

\* ------------------------------------------------------------ the store

\* Sample rows of init_db: name, dosage and notes are opaque display strings
Names == <<"Aspirin", "Vitamin D", "Metformin">>
Dosages == <<"100mg", "1000 IU", "500mg">>
Notes == <<"Take with food", "Take with breakfast", "Regular checkup">>

\* A Medication row (the columns the reminder engine reads or writes)
Medication(i, enabled, times) ==
    [id |-> i, name |-> Names[i], dosage |-> Dosages[i], notes |-> Notes[i],
     reminder_enabled |-> enabled, reminder_times |-> times,
     last_reminded |-> NoTime]

\* ------------------------------------------------------------ index (classify)

\* One pass of the loop body of lines 419-423 from piece i on; any exception
\* leaves the whole loop (the try encloses the for), so ok = FALSE discards
\* every time parsed so far.
RECURSIVE ParsePieces(_, _, _, _)
ParsePieces(pieces, i, now, acc) ==
    IF i > Len(pieces) THEN [ok |-> TRUE, times |-> acc]
    ELSE LET ts == Strip(pieces[i])
         IN  IF ts = <<>> THEN ParsePieces(pieces, i + 1, now, acc)
             ELSE LET parts == Split(ts, ":")
                  IN  IF /\ Len(parts) = 2
                         /\ IntOk(parts[1])
                         /\ IntOk(parts[2])
                         /\ ReplaceOk(IntVal(parts[1]), IntVal(parts[2]))
                      THEN ParsePieces(pieces, i + 1, now,
                               Append(acc, Replace(now, IntVal(parts[1]),
                                                        IntVal(parts[2]))))
                      ELSE [ok |-> FALSE, times |-> <<>>]

\* "Convert reminder times string to list of time objects"
ParseReminderTimes(reminder_times, now) ==
    ParsePieces(Split(reminder_times, ","), 1, now, <<>>)

\* "If reminder time is earlier today, move it to tomorrow"
RollForward(reminder_time, now) ==
    IF reminder_time < now THEN reminder_time + Day ELSE reminder_time

\* "Find the next reminder time": the loop of lines 430-437
RECURSIVE NextFrom(_, _, _, _)
NextFrom(times, i, now, next_reminder) ==
    IF i > Len(times) THEN next_reminder
    ELSE LET reminder_time == RollForward(times[i], now)
         IN  IF next_reminder = NoTime \/ reminder_time < next_reminder
             THEN NextFrom(times, i + 1, now, reminder_time)
             ELSE NextFrom(times, i + 1, now, next_reminder)

NextReminder(times, now) == NextFrom(times, 1, now, NoTime)

\* previous_occurrence of lines 448-450
PreviousOccurrence(next_reminder, now) ==
    IF next_reminder > now THEN next_reminder - Day ELSE next_reminder

\* "the medication has been taken": the test of line 452
AlreadyReminded(last_reminded, previous_occurrence) ==
    last_reminded # NoTime /\ last_reminded > previous_occurrence

\* A slip of boundary: exactly one hour ahead is no longer due
IsDue_Strict(time_until_reminder) == time_until_reminder < DueWindow

\* the bucket tests of lines 454 and 460
IsDue(time_until_reminder) == time_until_reminder <= DueWindow

IsUpcoming(time_until_reminder) == time_until_reminder <= UpcomingWindow

\* A slip: the final else of lines 466-467 missing, so that a medication
\* more than four hours ahead is appended to no list
ClassifyOne_NoFinalElse(medication, now) ==
    IF medication.reminder_times = <<>>
    THEN [bucket |-> "other", next_reminder |-> NoTime, time_until |-> 0]
    ELSE LET parsed == ParseReminderTimes(medication.reminder_times, now)
             next_reminder == NextReminder(parsed.times, now)
             time_until_reminder == next_reminder - now
             previous_occurrence == PreviousOccurrence(next_reminder, now)
         IN  IF ~parsed.ok \/ next_reminder = NoTime
             THEN [bucket |-> "other", next_reminder |-> NoTime, time_until |-> 0]
             ELSE [bucket |->
                      IF AlreadyReminded(medication.last_reminded,
                                         previous_occurrence) THEN "other"
                      ELSE IF IsDue(time_until_reminder) THEN "due"
                      ELSE IF IsUpcoming(time_until_reminder) THEN "upcoming"
                      ELSE "none",
                   next_reminder |-> next_reminder,
                   time_until |-> time_until_reminder]

\* The loop body of index for one medication: its bucket, and the entry
\* appended to due_medications or upcoming_medications.
ClassifyOne(medication, now) ==
    IF medication.reminder_times = <<>>
    THEN [bucket |-> "other", next_reminder |-> NoTime, time_until |-> 0]
    ELSE LET parsed == ParseReminderTimes(medication.reminder_times, now)
             next_reminder == NextReminder(parsed.times, now)
             time_until_reminder == next_reminder - now
             previous_occurrence == PreviousOccurrence(next_reminder, now)
         IN  IF ~parsed.ok \/ next_reminder = NoTime
             THEN [bucket |-> "other", next_reminder |-> NoTime, time_until |-> 0]
             ELSE [bucket |->
                      IF AlreadyReminded(medication.last_reminded,
                                         previous_occurrence) THEN "other"
                      ELSE IF IsDue(time_until_reminder) THEN "due"
                      ELSE IF IsUpcoming(time_until_reminder) THEN "upcoming"
                      ELSE "other",
                   next_reminder |-> next_reminder,
                   time_until |-> time_until_reminder]

\* The entries of one bucket in the order the loop appends them (query order);
\* locals[i] is what the loop body computed for row i
RECURSIVE Collect(_, _, _)
Collect(locals, bucket, i) ==
    IF i > NumMeds THEN <<>>
    ELSE (IF locals[i].bucket = bucket
          THEN <<[medication |-> i, next_reminder |-> locals[i].next_reminder,
                  time_until |-> locals[i].time_until]>>
          ELSE <<>>) \o Collect(locals, bucket, i + 1)

\* A slip: a sort that is not stable, entries of equal key change places
RECURSIVE InsertSorted_TiesReversed(_, _)
InsertSorted_TiesReversed(sorted, e) ==
    IF sorted = <<>> THEN <<e>>
    ELSE IF sorted[Len(sorted)].time_until < e.time_until
         THEN Append(sorted, e)
         ELSE Append(InsertSorted_TiesReversed(
                         SubSeq(sorted, 1, Len(sorted) - 1), e),
                     sorted[Len(sorted)])

\* list.sort(key=lambda x: x['time_until']): stable, ascending
RECURSIVE InsertSorted(_, _)
InsertSorted(sorted, e) ==
    IF sorted = <<>> THEN <<e>>
    ELSE IF sorted[Len(sorted)].time_until <= e.time_until
         THEN Append(sorted, e)
         ELSE Append(InsertSorted(SubSeq(sorted, 1, Len(sorted) - 1), e),
                     sorted[Len(sorted)])

RECURSIVE SortByTimeUntil(_)
SortByTimeUntil(entries) ==
    IF entries = <<>> THEN <<>>
    ELSE InsertSorted(SortByTimeUntil(SubSeq(entries, 1, Len(entries) - 1)),
                      entries[Len(entries)])

RECURSIVE MedicationIds(_)
MedicationIds(entries) ==
    IF entries = <<>> THEN <<>>
    ELSE <<Head(entries).medication>> \o MedicationIds(Tail(entries))

\* ------------------------------------------------------------ check_reminders

\* "current_time_str in reminder_times": an exact match of one split piece
TimeListed(current_time_str, reminder_times) ==
    \E k \in 1..Len(reminder_times) : reminder_times[k] = current_time_str

\* A slip of unit: 5 (minutes) compared with seconds
NotRemindedRecently_FiveSeconds(last_reminded, current_time) ==
    last_reminded = NoTime \/ current_time - last_reminded > 5

\* A slip of window: at most one reminder per 24 hours
NotRemindedRecently_WholeDay(last_reminded, current_time) ==
    last_reminded = NoTime \/ current_time - last_reminded > Day

\* "we haven't already reminded for this medication recently" (line 698)
NotRemindedRecently(last_reminded, current_time) ==
    last_reminded = NoTime \/ current_time - last_reminded > GuardSeconds

\* The body of the for loop of check_reminders for one loaded row: whether it
\* is appended to due_medications (and its last_reminded set)
Fires(med, current_time) ==
    /\ med.reminder_enabled
    /\ med.reminder_times # <<>>
    /\ TimeListed(Strftime(current_time), Split(med.reminder_times, ","))
    /\ NotRemindedRecently(med.last_reminded, current_time)

\* due_medications after the loop: one {name, dosage, notes} per firing row,
\* in query order
RECURSIVE DueList(_, _, _)
DueList(medications, current_time, i) ==
    IF i > NumMeds THEN <<>>
    ELSE (IF Fires(medications[i], current_time)
          THEN <<[name |-> medications[i].name,
                  dosage |-> medications[i].dosage,
                  notes |-> medications[i].notes]>>
          ELSE <<>>) \o DueList(medications, current_time, i + 1)

\* A slip: the stamp truncated to the minute
Remind_TruncatedToMinute(med, current_time) ==
    IF med.reminder_enabled
       /\ med.reminder_times # <<>>
       /\ \E k \in DOMAIN Split(med.reminder_times, ",") :
             Split(med.reminder_times, ",")[k] = Strftime(current_time)
       /\ (med.last_reminded = NoTime
           \/ current_time - med.last_reminded > GuardSeconds)
    THEN [med EXCEPT !.last_reminded = current_time - (current_time % 60)]
    ELSE med

\* A slip: the stamp set at the top of the loop body, before the tests
Remind_EveryEnabled(med, current_time) ==
    IF med.reminder_enabled
    THEN [med EXCEPT !.last_reminded = current_time]
    ELSE med

\* A slip: the stamp set one level out, for every listed minute, guard or not
Remind_OutsideGuard(med, current_time) ==
    IF /\ med.reminder_enabled
       /\ med.reminder_times # <<>>
       /\ TimeListed(Strftime(current_time), Split(med.reminder_times, ","))
    THEN [med EXCEPT !.last_reminded = current_time]
    ELSE med

\* A slip: the stamp is the instant the guard will end
Remind_StampsGuardEnd(med, current_time) ==
    IF Fires(med, current_time)
    THEN [med EXCEPT !.last_reminded = current_time + GuardSeconds]
    ELSE med

\* "med.last_reminded = current_time" on the rows that fire
Remind(med, current_time) ==
    IF Fires(med, current_time)
    THEN [med EXCEPT !.last_reminded = current_time]
    ELSE med

\* ------------------------------------------------------------ state

VARIABLES
    now,        \* the wall clock, datetime.now(local_timezone), in seconds
    ticks,      \* clock advances so far
    meds,       \* the Medication table: id -> row
    edits,      \* reminder-settings edits so far
    response,   \* what the request handled by the last step returned
    firedAt,    \* history: per medication, the calls that returned it as due
    pc,         \* per poller: "idle", or "loaded" between its query and commit
    current_time, \* per poller: the current_time its request read
    loaded,     \* per poller: the rows its session loaded
    calls,      \* polls begun by the concurrent pollers
    blood_tests,        \* the BloodTests table: the blood_sugar of each row
    starts,             \* application starts so far
    after_first_start,  \* history: blood_tests as the first start left it
    conversions         \* history: per row, the conversions applied to it

startVars == <<blood_tests, starts, after_first_start, conversions>>

\* the standalone reminder service (src/reminder_service.py)
VARIABLES
    svc_pc,     \* run_scheduler: "init", "loop" (before run_pending), "sleep"
    next_run,   \* the next_run of the one scheduled job
    wakes,      \* passes of the while loop so far
    job_runs,   \* history: the clock value each run of check_reminders read
    notified    \* history: the notifications sent, as (reminder row, clock)

serviceVars == <<svc_pc, next_run, wakes, job_runs, notified>>

vars == <<now, ticks, meds, edits, response, firedAt, pc, current_time, loaded,
          calls, startVars, serviceVars>>

Pollers == {1, 2}

\* No request was handled by the last step. Of a handled request: its kind,
\* the HTTP status, the clock value and the rows it read ("at", "rows"), the
\* due_medications it built ("computed") and returned ("fired"), how its
\* db.session.commit() ended ("none" when it made none), and the three lists
\* and the loop's locals of index.
NoResponse ==
    [kind |-> "none", status |-> 0, at |-> 0, rows |-> <<>>,
     fired |-> <<>>, computed |-> <<>>, commit |-> "none",
     due |-> <<>>, upcoming |-> <<>>, other |-> <<>>, locals |-> <<>>]

\* ------------------------------------------------------------ inputs

\* 07:57:00 and 08:00:00 of day 0: the polling scenarios start here
PollStart == {7 * 3600 + 57 * 60, 8 * 3600}

\* clock advances between polls: jitter inside a minute, the next listed
\* minute, one day less three minutes, one day
PollSteps == {30, 180, 86220, 86400}

T_0800 == <<"0", "8", ":", "0", "0">>
T_0757_0800 == <<"0", "7", ":", "5", "7", ",", "0", "8", ":", "0", "0">>
T_0800_0800 == <<"0", "8", ":", "0", "0", ",", "0", "8", ":", "0", "0">>
T_empty == <<>>

\* the rows of the polling scenarios: (reminder_enabled, reminder_times)
PollRows ==
    {<<TRUE, T_0800>>, <<TRUE, T_0757_0800>>, <<TRUE, T_0800_0800>>,
     <<TRUE, T_empty>>}

\* ------------------------------------------------------------ actions

InitCommon ==
    /\ ticks = 0
    /\ edits = 0
    /\ response = NoResponse
    /\ firedAt = [i \in Ids |-> <<>>]
    /\ pc = [p \in Pollers |-> "idle"]
    /\ current_time = [p \in Pollers |-> 0]
    /\ loaded = [p \in Pollers |-> <<>>]
    /\ calls = 0
    /\ blood_tests = <<>>
    /\ starts = 0
    /\ after_first_start = <<>>
    /\ conversions = <<>>
    /\ svc_pc = "init"
    /\ next_run = NoTime
    /\ wakes = 0
    /\ job_runs = <<>>
    /\ notified = <<>>

Init ==
    /\ now \in PollStart
    /\ \E r \in [Ids -> PollRows] :
          meds = [i \in Ids |-> Medication(i, r[i][1], r[i][2])]
    /\ InitCommon

\* Time passes between requests; the last response is with its caller
Advance(steps) ==
    /\ ticks < MaxTicks
    /\ \E d \in steps : now' = now + d
    /\ ticks' = ticks + 1
    /\ response' = NoResponse
    /\ UNCHANGED <<meds, edits, firedAt, pc, current_time, loaded, calls>>
    /\ UNCHANGED <<startVars, serviceVars>>

Tick == Advance(PollSteps)

\* The history of firings, extended by one call
Record(history, medications, at, by) ==
    [i \in Ids |->
        IF Fires(medications[i], at)
        THEN Append(history[i], [at |-> at, by |-> by])
        ELSE history[i]]

\* how the commit of line 707 ends when it does not raise
Committed(due_medications) == IF due_medications # <<>> THEN "ok" ELSE "none"

\* GET /api/check_reminders, run to completion by the one poller
CheckReminders ==
    /\ response' = [NoResponse EXCEPT !.kind = "check", !.status = 200,
                       !.at = now, !.rows = meds,
                       !.fired = DueList(meds, now, 1),
                       !.computed = DueList(meds, now, 1),
                       !.commit = Committed(DueList(meds, now, 1))]
    /\ meds' = [i \in Ids |-> Remind(meds[i], now)]
    /\ firedAt' = Record(firedAt, meds, now, 0)
    /\ UNCHANGED <<now, ticks, edits, pc, current_time, loaded, calls>>
    /\ UNCHANGED <<startVars, serviceVars>>

\* A slip: the dashboard acknowledges what it shows as due
Index_StampsDue ==
    /\ LET locals == [i \in Ids |-> ClassifyOne(meds[i], now)]
       IN  /\ response' =
                [NoResponse EXCEPT !.kind = "index", !.status = 200,
                    !.at = now, !.rows = meds,
                    !.due = SortByTimeUntil(Collect(locals, "due", 1)),
                    !.upcoming = SortByTimeUntil(Collect(locals, "upcoming", 1)),
                    !.other = MedicationIds(Collect(locals, "other", 1)),
                    !.locals = locals]
           /\ meds' = [i \in Ids |->
                         IF locals[i].bucket = "due"
                         THEN [meds[i] EXCEPT !.last_reminded = now]
                         ELSE meds[i]]
    /\ UNCHANGED <<now, ticks, edits, firedAt, pc, current_time, loaded, calls>>
    /\ UNCHANGED <<startVars, serviceVars>>

\* GET /medication/ : the dashboard classification
Index ==
    /\ LET locals == [i \in Ids |-> ClassifyOne(meds[i], now)]
       IN  response' =
              [NoResponse EXCEPT !.kind = "index", !.status = 200,
                  !.at = now, !.rows = meds,
                  !.due = SortByTimeUntil(Collect(locals, "due", 1)),
                  !.upcoming = SortByTimeUntil(Collect(locals, "upcoming", 1)),
                  !.other = MedicationIds(Collect(locals, "other", 1)),
                  !.locals = locals]
    /\ UNCHANGED <<now, ticks, meds, edits, firedAt, pc, current_time,
                   loaded, calls>>
    /\ UNCHANGED <<startVars, serviceVars>>

\* POST /api/medication/<id>/reminders with the JSON body
\* {reminder_enabled: e, reminder_times: t}
UpdateReminders(rows) ==
    /\ edits < MaxEdits
    /\ \E i \in Ids, r \in rows :
          meds' = [meds EXCEPT ![i].reminder_enabled = r[1],
                               ![i].reminder_times = r[2]]
    /\ edits' = edits + 1
    /\ response' = [NoResponse EXCEPT !.kind = "update", !.status = 200,
                       !.at = now, !.rows = meds, !.commit = "ok"]
    /\ UNCHANGED <<now, ticks, firedAt, pc, current_time, loaded, calls>>
    /\ UNCHANGED <<startVars, serviceVars>>

\* the edit of the polling scenarios: the reminder is switched off
Update == UpdateReminders({<<FALSE, T_0800>>})

Next == Tick \/ CheckReminders \/ Update

Spec == Init /\ [][Next]_vars

\* ------------------------------------------------------------ the dashboard scenarios

\* 03:59:59, 06:59:59, 07:30:00 and 23:30:00 of day 0
IndexStart == {3 * 3600 + 3599, 6 * 3600 + 3599, 7 * 3600 + 1800, 23 * 3600 + 1800}

\* clock advances between requests: one second, one minute, half an hour
IndexSteps == {1, 60, 1800}

T_0800_0830 == <<"0", "8", ":", "0", "0", ",", "0", "8", ":", "3", "0">>
T_0015 == <<"0", "0", ":", "1", "5">>
T_0300 == <<"0", "3", ":", "0", "0">>
T_0800_x == <<"0", "8", ":", "0", "0", ",", "x">>
T_0800_2500 == <<"0", "8", ":", "0", "0", ",", "2", "5", ":", "0", "0">>
T_0800_0861 == <<"0", "8", ":", "0", "0", ",", "0", "8", ":", "6", "1">>
T_0800_nocolon == <<"0", "8", ":", "0", "0", ",", "0", "8", "0", "0">>
T_0800_sp2000 ==
    <<"0", "8", ":", "0", "0", ",", " ", "2", "0", ":", "0", "0">>
T_8_00 == <<"8", ":", "0", "0">>
T_x == <<"x">>
T_0800_comma == <<"0", "8", ":", "0", "0", ",">>
T_0745_sp0800 ==
    <<"0", "7", ":", "4", "5", ",", " ", "0", "8", ":", "0", "0">>

\* the row under study: (reminder_enabled, reminder_times)
IndexRows ==
    {<<TRUE, T_0800>>, <<FALSE, T_0800>>, <<TRUE, T_0800_0830>>,
     <<TRUE, T_0015>>, <<TRUE, T_0300>>, <<TRUE, T_0800_x>>,
     <<TRUE, T_0800_2500>>, <<TRUE, T_0800_0861>>, <<TRUE, T_0800_nocolon>>,
     <<TRUE, T_0800_sp2000>>, <<TRUE, T_8_00>>, <<TRUE, T_x>>,
     <<TRUE, T_0800_comma>>, <<TRUE, T_0745_sp0800>>, <<TRUE, T_empty>>}

\* the rows stored beside it
NeighbourRows == {<<TRUE, T_0800>>, <<TRUE, T_x>>}

InitIndex ==
    /\ now \in IndexStart
    /\ \E i \in Ids, r \in IndexRows, n \in [Ids -> NeighbourRows] :
          meds = [j \in Ids |->
                    IF j = i THEN Medication(j, r[1], r[2])
                    ELSE Medication(j, n[j][1], n[j][2])]
    /\ InitCommon

TickIndex == Advance(IndexSteps)

NextIndex == TickIndex \/ CheckReminders \/ Index

SpecIndex == InitIndex /\ [][NextIndex]_vars

\* ------------------------------------------------------------ the next day's dashboard

\* 08:00:00 and 08:00:30 of day 0
CycleStart == {8 * 3600, 8 * 3600 + 30}

\* clock advances: half an hour, 23 hours, 23 hours and a half
CycleSteps == {1800, 82800, 84600}

\* medications with a single reminder time
CycleRows == {<<TRUE, T_0800>>, <<TRUE, T_0300>>}

InitCycle ==
    /\ now \in CycleStart
    /\ \E r \in [Ids -> CycleRows] :
          meds = [i \in Ids |-> Medication(i, r[i][1], r[i][2])]
    /\ InitCommon

TickCycle == Advance(CycleSteps)

NextCycle == TickCycle \/ CheckReminders \/ Index

SpecCycle == InitCycle /\ [][NextCycle]_vars

\* ------------------------------------------------------------ a failing store

\* GET /api/check_reminders when db.session.commit() raises: line 707 is in no
\* try, so the exception leaves the view and Flask answers 500 without the
\* list; the session is discarded with its pending last_reminded values.
CheckRemindersCommitFails ==
    /\ DueList(meds, now, 1) # <<>>
    /\ response' = [NoResponse EXCEPT !.kind = "check", !.status = 500,
                       !.at = now, !.rows = meds,
                       !.computed = DueList(meds, now, 1),
                       !.commit = "failed"]
    /\ UNCHANGED <<now, ticks, meds, edits, firedAt, pc, current_time,
                   loaded, calls>>
    /\ UNCHANGED <<startVars, serviceVars>>

NextFault == Tick \/ CheckReminders \/ CheckRemindersCommitFails

SpecFault == Init /\ [][NextFault]_vars

\* ------------------------------------------------------------ two pollers

\* the overlapping polls start at 08:00:00 of day 0
ConcStart == {8 * 3600}

ConcSteps == {30}

InitConc ==
    /\ now \in ConcStart
    /\ \E r \in [Ids -> PollRows] :
          meds = [i \in Ids |-> Medication(i, r[i][1], r[i][2])]
    /\ InitCommon

TickConc == Advance(ConcSteps)

\* Lines 684-688 of one request: the clock is read and the session loads the
\* rows; nothing is written yet.
Begin(p) ==
    /\ pc[p] = "idle"
    /\ calls < MaxCalls
    /\ pc' = [pc EXCEPT ![p] = "loaded"]
    /\ current_time' = [current_time EXCEPT ![p] = now]
    /\ loaded' = [loaded EXCEPT ![p] = meds]
    /\ calls' = calls + 1
    /\ response' = NoResponse
    /\ UNCHANGED <<now, ticks, meds, edits, firedAt>>
    /\ UNCHANGED <<startVars, serviceVars>>

\* Lines 691-709 of that request: the loop runs on the rows the session
\* loaded, the commit writes last_reminded of the rows the loop changed, and
\* the list is returned.
Finish(p) ==
    /\ pc[p] = "loaded"
    /\ meds' = [i \in Ids |->
                  IF Fires(loaded[p][i], current_time[p])
                  THEN [meds[i] EXCEPT !.last_reminded = current_time[p]]
                  ELSE meds[i]]
    /\ firedAt' = Record(firedAt, loaded[p], current_time[p], p)
    /\ response' = [NoResponse EXCEPT !.kind = "check", !.status = 200,
                       !.at = current_time[p], !.rows = loaded[p],
                       !.fired = DueList(loaded[p], current_time[p], 1),
                       !.computed = DueList(loaded[p], current_time[p], 1),
                       !.commit =
                           Committed(DueList(loaded[p], current_time[p], 1))]
    /\ pc' = [pc EXCEPT ![p] = "idle"]
    /\ current_time' = [current_time EXCEPT ![p] = 0]
    /\ loaded' = [loaded EXCEPT ![p] = <<>>]
    /\ UNCHANGED <<now, ticks, edits, calls>>
    /\ UNCHANGED <<startVars, serviceVars>>

NextConc == TickConc \/ (\E p \in Pollers : Begin(p)) \/ (\E p \in Pollers : Finish(p))

SpecConc == InitConc /\ [][NextConc]_vars

\* ------------------------------------------------------------ application start

\* None in the nullable column blood_sugar
NoSugar == -1
\* "multiplication factor is approximately 18"
SugarFactor == 18

\* number of BloodTests rows
MaxTests == 2
\* number of application starts in one behaviour
MaxStarts == 2

\* blood_sugar values a form posts, in tenths of a unit: none, 4.0, 5.5
SugarSamples == {NoSugar, 40, 55}

\* "test.blood_sugar = round(test.blood_sugar * 18.0, 1)" where the value is
\* not None; a value with one decimal has a product with one decimal
ConvertOne(blood_sugar) ==
    IF blood_sugar # NoSugar THEN blood_sugar * SugarFactor ELSE blood_sugar

\* convert_blood_sugar(): every row of BloodTests.query.all(), then the commit
ConvertBloodSugar(tests) == [k \in DOMAIN tests |-> ConvertOne(tests[k])]

\* the history of conversions, extended by one run of convert_blood_sugar
CountConversion(tests, counts) ==
    [k \in DOMAIN tests |->
        IF tests[k] # NoSugar THEN counts[k] + 1 ELSE counts[k]]

InitStart ==
    /\ now = 0
    /\ meds = [i \in Ids |-> Medication(i, TRUE, T_0800)]
    /\ InitCommon

\* POST /blood_tests/add: a reading is stored as the form gives it
AddBloodTest ==
    /\ Len(blood_tests) < MaxTests
    /\ \E v \in SugarSamples : blood_tests' = Append(blood_tests, v)
    /\ conversions' = Append(conversions, 0)
    /\ UNCHANGED <<starts, after_first_start>>
    /\ UNCHANGED <<now, ticks, meds, edits, response, firedAt, pc,
                   current_time, loaded, calls, serviceVars>>

\* "python app.py": the module body runs convert_blood_sugar (lines 245-248),
\* then __name__ is '__main__' and app.run serves
StartMain ==
    /\ starts < MaxStarts
    /\ blood_tests' = ConvertBloodSugar(blood_tests)
    /\ conversions' = CountConversion(blood_tests, conversions)
    /\ starts' = starts + 1
    /\ after_first_start' =
          IF starts = 0 THEN blood_tests' ELSE after_first_start
    /\ UNCHANGED <<now, ticks, meds, edits, response, firedAt, pc,
                   current_time, loaded, calls, serviceVars>>

\* the module imported by a WSGI server: the module body runs
\* convert_blood_sugar (lines 245-248), then the else branch of line 843 calls
\* init_db, which runs it again (line 163)
StartWSGI ==
    /\ starts < MaxStarts
    /\ blood_tests' = ConvertBloodSugar(ConvertBloodSugar(blood_tests))
    /\ conversions' =
          CountConversion(ConvertBloodSugar(blood_tests),
                          CountConversion(blood_tests, conversions))
    /\ starts' = starts + 1
    /\ after_first_start' =
          IF starts = 0 THEN blood_tests' ELSE after_first_start
    /\ UNCHANGED <<now, ticks, meds, edits, response, firedAt, pc,
                   current_time, loaded, calls, serviceVars>>

NextStart == AddBloodTest \/ StartMain \/ StartWSGI

SpecStart == InitStart /\ [][NextStart]_vars

\* ------------------------------------------------------------ the reminder service

\* schedule.every().minute: the period of the job, in seconds
Period == 60
\* time.sleep(30)
SleepSeconds == 30

\* passes of the while loop in one behaviour
MaxWakes == 5

T_0801 == <<"0", "8", ":", "0", "1">>

\* the column time of the rows of the table reminders
ReminderRows == <<T_0800, T_0801, T_0800>>

\* 07:58:45, 07:59:00 and 07:59:20 of day 0: the service is started
ServiceStart == {7 * 3600 + 58 * 60 + 45, 7 * 3600 + 59 * 60,
                 7 * 3600 + 59 * 60 + 20}

\* what a sleep of 30 seconds takes: the 30 seconds, or a second more
SleepTimes == {SleepSeconds, SleepSeconds + 1}

\* what one run of check_reminders takes (the notifications are subprocesses
\* the job waits for)
JobTimes == {0, 2}

\* A slip: the job scheduled every 30 seconds, like the sleep
ScheduleNextRun_HalfMinute(t) == t + 30

\* the job's next_run, set when it is scheduled and after each run: the
\* clock then, plus the period
ScheduleNextRun(t) == t + Period

\* get_due_reminders at clock t: the rows with r.time = strftime('%H:%M')
DueReminders(t) == {k \in DOMAIN ReminderRows : ReminderRows[k] = Strftime(t)}

\* one notification per row of get_due_reminders, in row order
RECURSIVE Notify(_, _, _)
Notify(due, t, k) ==
    IF k > Len(ReminderRows) THEN <<>>
    ELSE (IF k \in due THEN <<[reminder |-> k, at |-> t]>> ELSE <<>>)
            \o Notify(due, t, k + 1)

InitService ==
    /\ now \in ServiceStart
    /\ meds = [i \in Ids |-> Medication(i, TRUE, T_0800)]
    /\ InitCommon

\* schedule.every().minute.do(check_reminders), line 56
ScheduleJob ==
    /\ svc_pc = "init"
    /\ next_run' = ScheduleNextRun(now)
    /\ svc_pc' = "loop"
    /\ UNCHANGED <<now, wakes, job_runs, notified>>
    /\ UNCHANGED <<ticks, meds, edits, response, firedAt, pc, current_time,
                   loaded, calls, startVars>>

\* schedule.run_pending(), line 60: the job runs if its next_run has come; it
\* reads the clock, notifies every due row, and is scheduled again from the
\* clock at its end
RunPending ==
    /\ svc_pc = "loop"
    /\ IF now >= next_run
       THEN \E d \in JobTimes :
               /\ job_runs' = Append(job_runs, now)
               /\ notified' = notified \o Notify(DueReminders(now), now, 1)
               /\ now' = now + d
               /\ next_run' = ScheduleNextRun(now + d)
       ELSE UNCHANGED <<now, next_run, job_runs, notified>>
    /\ svc_pc' = "sleep"
    /\ UNCHANGED wakes
    /\ UNCHANGED <<ticks, meds, edits, response, firedAt, pc, current_time,
                   loaded, calls, startVars>>

\* time.sleep(30), line 61
Sleep ==
    /\ svc_pc = "sleep"
    /\ wakes < MaxWakes
    /\ \E s \in SleepTimes : now' = now + s
    /\ wakes' = wakes + 1
    /\ svc_pc' = "loop"
    /\ UNCHANGED <<next_run, job_runs, notified>>
    /\ UNCHANGED <<ticks, meds, edits, response, firedAt, pc, current_time,
                   loaded, calls, startVars>>

NextService == ScheduleJob \/ RunPending \/ Sleep

SpecService == InitService /\ [][NextService]_vars

\* ------------------------------------------------------------ vocabulary of the properties

\* the {name, dosage, notes} object a fired list holds for a row
Display(med) == [name |-> med.name, dosage |-> med.dosage, notes |-> med.notes]

TimesIn(list, x) == Cardinality({k \in DOMAIN list : list[k] = x})

MinuteOfDay(t) == (t % 86400) \div 60

DayOf(t) == t \div 86400

\* reminder_times lists the minute of t as a zero-padded HH:MM entry
ListsMinute(reminder_times, t) ==
    LET h == MinuteOfDay(t) \div 60
        m == MinuteOfDay(t) % 60
        entries == Split(reminder_times, ",")
    IN  \E k \in DOMAIN entries :
           LET e == entries[k]
           IN  /\ Len(e) = 5
               /\ e[3] = ":"
               /\ \A j \in {1, 2, 4, 5} : IsDigit(e[j])
               /\ 10 * DigitVal(e[1]) + DigitVal(e[2]) = h
               /\ 10 * DigitVal(e[4]) + DigitVal(e[5]) = m

\* ------------------------------------------------------------ C1

\* C1: no medication is returned as due by two calls whose 'now' values are
\* at most 300 seconds apart and lie in the same HH:MM minute.
C1_NoDoubleFireInGuard ==
    \A i \in Ids : \A a, b \in DOMAIN firedAt[i] :
        a < b =>
            ~ /\ firedAt[i][b].at - firedAt[i][a].at <= 300
              /\ firedAt[i][a].at - firedAt[i][b].at <= 300
              /\ MinuteOfDay(firedAt[i][a].at) = MinuteOfDay(firedAt[i][b].at)

\* A second call, 30 seconds after the one that fired and in the same listed
\* minute, has just answered without the medication.
C1_Witness ==
    \E i \in Ids :
        /\ response.kind = "check"
        /\ meds[i].reminder_enabled
        /\ ListsMinute(meds[i].reminder_times, now)
        /\ Len(firedAt[i]) = 1
        /\ now - firedAt[i][1].at = 30
        /\ MinuteOfDay(firedAt[i][1].at) = MinuteOfDay(now)
        /\ TimesIn(response.fired, Display(meds[i])) = 0

\* ------------------------------------------------------------ C2

\* C2: a call at a listed HH:MM minute, for an enabled medication that was
\* never reminded, returns the medication exactly once (also when the minute
\* is listed twice) and leaves its last_reminded equal to the call's 'now'.
C2_FiresOnceAndStamps ==
    response.kind = "check" =>
        \A i \in Ids :
            (/\ response.rows[i].reminder_enabled
             /\ response.rows[i].last_reminded = NoTime
             /\ ListsMinute(response.rows[i].reminder_times, response.at))
            => /\ TimesIn(response.fired, Display(response.rows[i])) = 1
               /\ meds[i].last_reminded = response.at

\* The minute is listed twice, the call came 30 seconds into it, the
\* medication is in the answer once and stamped with the call's 'now'.
C2_Witness ==
    \E i \in Ids :
        /\ response.kind = "check"
        /\ response.rows[i].reminder_times = T_0800_0800
        /\ response.rows[i].reminder_enabled
        /\ response.rows[i].last_reminded = NoTime
        /\ response.at % 60 = 30
        /\ TimesIn(response.fired, Display(meds[i])) = 1
        /\ meds[i].last_reminded = response.at

\* ------------------------------------------------------------ C9

\* the call just answered found row i reminded within the 300 seconds before
RemindedInGuard(i) ==
    /\ response.rows[i].last_reminded # NoTime
    /\ response.at - response.rows[i].last_reminded <= 300

\* row i was fired in the minute of the call just answered, one day earlier
FiredYesterdaySameMinute(i) ==
    \E k \in DOMAIN firedAt[i] :
        /\ MinuteOfDay(firedAt[i][k].at) = MinuteOfDay(response.at)
        /\ DayOf(firedAt[i][k].at) + 1 = DayOf(response.at)

\* C9: a medication fired in minute HH:MM of day D fires again at a call in
\* minute HH:MM of day D+1, if it is still enabled with that time and its
\* last_reminded was not set within the 300 seconds before the call.
C9_DailyRefire ==
    response.kind = "check" =>
        \A i \in Ids :
            (/\ response.rows[i].reminder_enabled
             /\ ListsMinute(response.rows[i].reminder_times, response.at)
             /\ FiredYesterdaySameMinute(i)
             /\ ~RemindedInGuard(i))
            => TimesIn(response.fired, Display(response.rows[i])) = 1

\* Fired in a minute of day 0 and again, by the call just answered, in the
\* same minute of day 1.
C9_Witness ==
    \E i \in Ids :
        /\ response.kind = "check"
        /\ FiredYesterdaySameMinute(i)
        /\ response.rows[i].last_reminded # NoTime
        /\ TimesIn(response.fired, Display(response.rows[i])) = 1
        /\ firedAt[i][Len(firedAt[i])].at = response.at

\* ------------------------------------------------------------ C10

\* C10 (as claimed): a call in a listed minute T2 fires the medication whether
\* or not it fired earlier at another of its times T1, also when T1 and T2
\* are less than 5 minutes apart.
C10_TimesIndependent ==
    response.kind = "check" =>
        \A i \in Ids :
            (/\ response.rows[i].reminder_enabled
             /\ ListsMinute(response.rows[i].reminder_times, response.at)
             /\ response.rows[i].last_reminded # NoTime
             /\ ListsMinute(response.rows[i].reminder_times,
                            response.rows[i].last_reminded)
             /\ MinuteOfDay(response.rows[i].last_reminded)
                   # MinuteOfDay(response.at))
            => TimesIn(response.fired, Display(response.rows[i])) = 1

\* ------------------------------------------------------------ C4

\* C4 (as claimed): two pollers never both return the same medication for
\* the same minute, however their requests overlap.
C4_PollersNeverBothFire ==
    \A i \in Ids : \A a, b \in DOMAIN firedAt[i] :
        (a # b /\ firedAt[i][a].by # firedAt[i][b].by)
            => firedAt[i][a].at \div 60 # firedAt[i][b].at \div 60

\* ------------------------------------------------------------ C8

\* C8 (as claimed): when the commit of the new last_reminded values raises,
\* the call still returns the fired list it computed.
C8_ListReturnedWhenCommitFails ==
    (response.kind = "check" /\ response.commit = "failed")
        => /\ response.status = 200
           /\ response.fired = response.computed

\* ------------------------------------------------------------ vocabulary of the dashboard properties

\* the bucket the answered index request put row i in, read off its lists
InDue(i) == \E k \in DOMAIN response.due : response.due[k].medication = i

InUpcoming(i) ==
    \E k \in DOMAIN response.upcoming : response.upcoming[k].medication = i

InOther(i) == \E k \in DOMAIN response.other : response.other[k] = i

\* an entry of the comma-separated list: blank, a valid time of day, or malformed
BlankEntry(e) == \A k \in DOMAIN e : e[k] = " "

ValidEntry(e) ==
    LET parts == Split(Strip(e), ":")
    IN  /\ Len(parts) = 2
        /\ IntOk(parts[1]) /\ IntVal(parts[1]) <= 23
        /\ IntOk(parts[2]) /\ IntVal(parts[2]) <= 59

MalformedEntry(e) == ~BlankEntry(e) /\ ~ValidEntry(e)

ValidEntries(reminder_times) ==
    {k \in DOMAIN Split(reminder_times, ",") :
        ValidEntry(Split(reminder_times, ",")[k])}

HasMalformed(reminder_times) ==
    \E k \in DOMAIN Split(reminder_times, ",") :
        MalformedEntry(Split(reminder_times, ",")[k])

\* seconds after midnight of a valid entry
SecondOfDay(e) ==
    LET parts == Split(Strip(e), ":")
    IN  IntVal(parts[1]) * 3600 + IntVal(parts[2]) * 60

\* the first instant at or after t that is hh:mm:00 of entry e
Occurrence(e, t) ==
    LET today == (t - (t % 86400)) + SecondOfDay(e)
    IN  IF today >= t THEN today ELSE today + 86400

Occurrences(reminder_times, t) ==
    {Occurrence(Split(reminder_times, ",")[k], t) :
        k \in ValidEntries(reminder_times)}

Earliest(S) == CHOOSE x \in S : \A y \in S : x <= y

\* the list with its malformed entries removed
RECURSIVE JoinKept(_, _)
JoinKept(entries, first) ==
    IF entries = <<>> THEN <<>>
    ELSE IF MalformedEntry(Head(entries)) THEN JoinKept(Tail(entries), first)
    ELSE (IF first THEN <<>> ELSE <<",">>) \o Head(entries)
             \o JoinKept(Tail(entries), FALSE)

WithoutMalformed(reminder_times) == JoinKept(Split(reminder_times, ","), TRUE)

\* ------------------------------------------------------------ C3

\* C3 (as claimed): a medication with reminder_enabled = false is always in
\* other_medications, never in due or upcoming.
C3_DisabledIsDormant ==
    response.kind = "index" =>
        \A i \in Ids :
            ~response.rows[i].reminder_enabled
                => InOther(i) /\ ~InDue(i) /\ ~InUpcoming(i)

\* ------------------------------------------------------------ C5

\* the bucket the rule of C5 gives for next reminder nr, last_reminded last
\* and the request's clock t
BucketByRule(nr, last, t) ==
    LET delta == nr - t
        previousOccurrence == IF nr > t THEN nr - 86400 ELSE nr
    IN  IF last # NoTime /\ last > previousOccurrence THEN "other"
        ELSE IF delta <= 3600 THEN "due"
        ELSE IF delta <= 14400 THEN "upcoming"
        ELSE "other"

\* C5: a medication for which index computed a next reminder is in the list
\* the rule names, and in no other: acknowledged (last_reminded after the
\* previous occurrence) gives other; else delta <= 1 h gives due, delta <= 4 h
\* upcoming, beyond that other.
C5_BucketByDelta ==
    response.kind = "index" =>
        \A i \in Ids :
            response.locals[i].next_reminder # NoTime =>
                LET b == BucketByRule(response.locals[i].next_reminder,
                                      response.rows[i].last_reminded,
                                      response.at)
                IN  /\ InDue(i) <=> b = "due"
                    /\ InUpcoming(i) <=> b = "upcoming"
                    /\ InOther(i) <=> b = "other"

\* The boundary: exactly one hour before the reminder, never reminded, due.
C5_Witness ==
    \E i \in Ids :
        /\ response.kind = "index"
        /\ response.rows[i].last_reminded = NoTime
        /\ response.locals[i].next_reminder - response.at = 3600
        /\ InDue(i)

\* ------------------------------------------------------------ C6

\* C6 (as claimed): for every medication with at least one valid reminder
\* time, next_reminder is the earliest of the first occurrences, at or after
\* now, of its valid times; so now <= next_reminder < now + 24 h.
C6_NextIsEarliestOccurrence ==
    response.kind = "index" =>
        \A i \in Ids :
            ValidEntries(response.rows[i].reminder_times) # {} =>
                /\ response.locals[i].next_reminder =
                      Earliest(Occurrences(response.rows[i].reminder_times,
                                           response.at))
                /\ response.at <= response.locals[i].next_reminder
                /\ response.locals[i].next_reminder < response.at + 86400

\* ------------------------------------------------------------ C7

\* the bucket of the loop's locals
BucketOf(i) ==
    IF InDue(i) THEN "due" ELSE IF InUpcoming(i) THEN "upcoming" ELSE "other"

\* C7 (as claimed): a medication whose list holds a valid entry and malformed
\* entries is classified as the same medication without the malformed ones.
C7_MalformedSkippedPerEntry ==
    response.kind = "index" =>
        \A i \in Ids :
            (/\ ValidEntries(response.rows[i].reminder_times) # {}
             /\ HasMalformed(response.rows[i].reminder_times))
            => BucketOf(i) =
                  ClassifyOne(
                      [response.rows[i] EXCEPT !.reminder_times =
                          WithoutMalformed(response.rows[i].reminder_times)],
                      response.at).bucket

\* ------------------------------------------------------------ C11

\* the times of day index parses out of reminder_times, as seconds of the day
ParsedTimesOfDay(reminder_times) ==
    {ParseReminderTimes(reminder_times, 0).times[k] :
        k \in DOMAIN ParseReminderTimes(reminder_times, 0).times}

\* C11 (as claimed): a call of check_reminders whose hour:minute is a time of
\* day that index parses out of the medication's reminder_times, whitespace
\* around the entry and missing zero padding included, fires the enabled
\* medication when the 300-second guard allows it.
C11_CheckMatchesParsedEntries ==
    response.kind = "check" =>
        \A i \in Ids :
            (/\ response.rows[i].reminder_enabled
             /\ NotRemindedRecently(response.rows[i].last_reminded, response.at)
             /\ MinuteOfDay(response.at) * 60
                   \in ParsedTimesOfDay(response.rows[i].reminder_times))
            => TimesIn(response.fired, Display(response.rows[i])) = 1

\* ------------------------------------------------------------ C12

\* row i of the answered request is enabled and has no reminder times
EnabledWithoutTimes(i) ==
    /\ response.rows[i].reminder_enabled
    /\ response.rows[i].reminder_times = <<>>

\* C12: an enabled medication without reminder times is put in
\* other_medications by every index request, is in the list of no
\* check_reminders request, and keeps its last_reminded through every
\* check_reminders request, whatever 'now' is and whatever calls came before.
C12_NoTimesNeverScheduled ==
    /\ response.kind = "index" =>
          \A i \in Ids :
              EnabledWithoutTimes(i)
                  => InOther(i) /\ ~InDue(i) /\ ~InUpcoming(i)
    /\ response.kind = "check" =>
          \A i \in Ids :
              EnabledWithoutTimes(i)
                  => /\ TimesIn(response.fired, Display(response.rows[i])) = 0
                     /\ meds[i].last_reminded = response.rows[i].last_reminded
    /\ \A i \in Ids :
          (meds[i].reminder_enabled /\ meds[i].reminder_times = <<>>)
              => firedAt[i] = <<>> /\ meds[i].last_reminded = NoTime

\* A call in a minute another medication lists has just fired that one and
\* left the enabled medication without times out and unstamped.
C12_Witness ==
    \E i \in Ids :
        /\ response.kind = "check"
        /\ EnabledWithoutTimes(i)
        /\ response.fired # <<>>
        /\ TimesIn(response.fired, Display(response.rows[i])) = 0
        /\ meds[i].last_reminded = NoTime

\* ------------------------------------------------------------ C13

\* how many entries of the three lists of the answered index request hold row i
TimesListed(i) ==
    Cardinality({k \in DOMAIN response.due : response.due[k].medication = i})
    + Cardinality({k \in DOMAIN response.upcoming :
                      response.upcoming[k].medication = i})
    + Cardinality({k \in DOMAIN response.other : response.other[k] = i})

\* C13: an index request answers with every stored medication in exactly one
\* of due_medications, upcoming_medications and other_medications, also when
\* another medication has malformed or unparseable reminder_times; such a
\* medication is in other_medications and the request is no error.
C13_ListsPartition ==
    response.kind = "index" =>
        /\ response.status = 200
        /\ \A i \in Ids : TimesListed(i) = 1
        /\ Len(response.due) + Len(response.upcoming) + Len(response.other)
              = NumMeds
        /\ \A i \in Ids :
              (/\ ValidEntries(response.rows[i].reminder_times) = {}
               /\ HasMalformed(response.rows[i].reminder_times))
              => InOther(i)

\* An unparseable medication is in other_medications while its neighbour is
\* listed as due by the same request.
C13_Witness ==
    \E i, j \in Ids :
        /\ response.kind = "index"
        /\ response.rows[i].reminder_times = T_x
        /\ InOther(i)
        /\ i # j
        /\ InDue(j)

\* ------------------------------------------------------------ C14

\* C14: a check_reminders request changes nothing but last_reminded, and that
\* only of the medications in the list it returns: a row it does not return
\* (disabled, minute not listed, or reminded within the last 300 seconds) is
\* stored as it was read, and a row it returns differs from the row read in
\* last_reminded alone.
C14_OnlyFiredRowsStamped ==
    response.kind = "check" =>
        \A i \in Ids :
            IF TimesIn(response.fired, Display(response.rows[i])) = 0
            THEN meds[i] = response.rows[i]
            ELSE meds[i] = [response.rows[i] EXCEPT !.last_reminded = response.at]

\* One call returned a medication and stamped it, and left alone another
\* that lists the same minute but was reminded three minutes before.
C14_Witness ==
    \E i, j \in Ids :
        /\ response.kind = "check"
        /\ TimesIn(response.fired, Display(response.rows[i])) = 1
        /\ meds[i].last_reminded = response.at
        /\ ListsMinute(response.rows[j].reminder_times, response.at)
        /\ response.rows[j].last_reminded = response.at - 180
        /\ TimesIn(response.fired, Display(response.rows[j])) = 0
        /\ meds[j].last_reminded = response.at - 180

\* ------------------------------------------------------------ C15

\* C15: an index request leaves every field of every stored medication as it
\* was, last_reminded included; so a second index request at the same 'now',
\* with no check_reminders and no edit in between, answers with the same
\* three lists as the first.
C15_IndexHasNoSideEffects ==
    [][Index =>
         /\ meds' = meds
         /\ (response.kind = "index" /\ response.at = now)
               => /\ response'.due = response.due
                  /\ response'.upcoming = response.upcoming
                  /\ response'.other = response.other]_vars

\* An index request has listed as due a medication that check_reminders had
\* stamped, and the stored row still carries that stamp.
C15_Witness ==
    \E i \in Ids :
        /\ response.kind = "index"
        /\ InDue(i)
        /\ response.rows[i].last_reminded # NoTime
        /\ meds[i] = response.rows[i]

\* ------------------------------------------------------------ C16

\* C16: in every reachable state, the clock never going backwards, the
\* last_reminded of every medication is null or at most the current 'now'.
C16_LastRemindedNotInFuture ==
    \A i \in Ids :
        meds[i].last_reminded = NoTime \/ meds[i].last_reminded <= now

\* A medication was stamped by a call and the clock has moved on since.
C16_Witness ==
    \E i \in Ids :
        /\ meds[i].last_reminded # NoTime
        /\ Len(firedAt[i]) >= 1
        /\ meds[i].last_reminded = firedAt[i][Len(firedAt[i])].at
        /\ meds[i].last_reminded < now

\* ------------------------------------------------------------ C17

\* ascending by time_until, entries of equal time_until in the order of the
\* rows of the query
SortedAndStable(list) ==
    \A a, b \in DOMAIN list :
        a < b =>
            /\ list[a].time_until <= list[b].time_until
            /\ list[a].time_until = list[b].time_until
                  => list[a].medication < list[b].medication

\* C17: in the answer of index, due_medications and upcoming_medications are
\* each ordered by non-decreasing time until the next reminder, and two
\* medications with the same time keep the order of the input list.
C17_ListsSortedStable ==
    response.kind = "index" =>
        /\ SortedAndStable(response.due)
        /\ SortedAndStable(response.upcoming)
        /\ \A k \in DOMAIN response.due :
              response.due[k].time_until
                  = response.locals[response.due[k].medication].time_until
        /\ \A k \in DOMAIN response.upcoming :
              response.upcoming[k].time_until
                  = response.locals[response.upcoming[k].medication].time_until

\* The sort has moved a later row in front of an earlier one: the first due
\* entry is sooner and comes later in the input.
C17_Witness ==
    /\ response.kind = "index"
    /\ Len(response.due) >= 2
    /\ response.due[1].medication > response.due[2].medication
    /\ response.due[1].time_until < response.due[2].time_until

\* ------------------------------------------------------------ C18

\* C18 (as claimed): a medication with a single reminder time T, which
\* check_reminders fired during minute T of day D, is listed as due, not in
\* other_medications, by an index request within the hour before T of day
\* D+1.
C18_AcknowledgementCoversOneCycle ==
    response.kind = "index" =>
        \A i \in Ids :
            LET last == response.rows[i].last_reminded
                nextT == (last - (last % 60)) + 86400
            IN  (/\ last # NoTime
                 /\ Len(Split(response.rows[i].reminder_times, ",")) = 1
                 /\ ListsMinute(response.rows[i].reminder_times, last)
                 /\ response.at <= nextT
                 /\ nextT - response.at <= 3600)
                => InDue(i) /\ ~InOther(i)

\* ------------------------------------------------------------ C19

\* C19 (as claimed): the start-up conversion of blood_sugar from mmol/L to
\* mg/dL is applied at most once to each stored reading: after any number of
\* application starts a reading holds the value the first start left.
C19_ConvertedAtMostOnce ==
    /\ \A k \in DOMAIN conversions : conversions[k] <= 1
    /\ starts >= 1 =>
          \A k \in DOMAIN after_first_start :
              blood_tests[k] = after_first_start[k]

\* ------------------------------------------------------------ C20

\* C20: the reminder service never runs check_reminders twice in one
\* wall-clock HH:MM minute, so that no row of reminders is notified twice for
\* one daily occurrence of its time.
C20_OneRunPerMinute ==
    /\ \A a, b \in DOMAIN job_runs :
          a < b => job_runs[a] \div 60 < job_runs[b] \div 60
    /\ \A a, b \in DOMAIN notified :
          (a < b /\ notified[a].reminder = notified[b].reminder)
              => notified[a].at \div 60 # notified[b].at \div 60

\* The job ran late in minute 08:00 and notified a row, and ran again early
\* in the next minute, less than 90 seconds later.
C20_Witness ==
    \E a \in DOMAIN job_runs :
        /\ a + 1 \in DOMAIN job_runs
        /\ Strftime(job_runs[a]) = T_0800
        /\ \E n \in DOMAIN notified : notified[n].at = job_runs[a]
        /\ job_runs[a + 1] \div 60 = job_runs[a] \div 60 + 1
        /\ job_runs[a + 1] - job_runs[a] < 90

====
